---- MODULE Spec2Model ----
(***************************************************************************)
(* Cross-validated Gaussian-mixture scoring of trajectories                *)
(* (utils/gmm_cv.py).                                                      *)
(*                                                                         *)
(* A data frame is modelled column-wise: a record whose field "index" is   *)
(* the sequence of row labels and whose other fields are sequences of      *)
(* cells aligned with it.  A cell is Cell(v) or the missing value NaN.     *)
(* The rows of data_original are labelled 1..N.  A point's (lons, lats)    *)
(* pair is one abstract coordinate xy.                                     *)
(*                                                                         *)
(* The mixture library is outside the repository.  A fitted model is the   *)
(* record of what it was fitted with; its BIC is any value of BicVals;     *)
(* a log-likelihood is kept as a term (the model and the points it is the  *)
(* mean log-likelihood of), so that a statement about scores holds for     *)
(* every density the library may have fitted.                              *)
(***************************************************************************)
EXTENDS Integers, Sequences, FiniteSets, TLC

VARIABLES
    data_original,       \* input frame: index, id_traj, xy
    cv_list,             \* input: sequence of held-out trajectory-id sets
    nb_traj_class,       \* input: number of trajectory clusters
    labels,              \* input: array, trajectory id -> cluster label
    pc,                  \* position in the running function
    exc,                 \* the exception that ended the run, or "none"
    i,                   \* build_cross_clust_mixt_cv: fold counter (0-based)
    n_class,             \* build_cross_clust_mixt_cv: label counter
    split,               \* locals returned by train_test_split for fold i
    gmm_per_traj_clust,  \* the fold's {label: model} dictionary
    gmm_cv,              \* accumulator of the folds' dictionaries
    data_list,           \* accumulator of the folds' test frames
    data,                \* the returned score table
    calls,               \* log of the calls of nb_clust_with_bic_ made by the run
    args,                \* arguments of a direct call (unit specifications)
    ret                  \* result of a direct call (unit specifications)

vars == <<data_original, cv_list, nb_traj_class, labels, pc, exc, i, n_class,
          split, gmm_per_traj_clust, gmm_cv, data_list, data, calls, args, ret>>

-----------------------------------------------------------------------------
(* Bounds of the model *)

NTraj == 4          \* trajectory ids are 0..NTraj-1
MaxPts == 3         \* points per trajectory
MaxFolds == 2       \* length of cv_list
MaxClass == 2       \* nb_traj_class
MaxCoord == 2       \* distinct coordinates among the points

(* Program constants *)

DefaultMinNc == 2
DefaultMaxNc == 20
SubsampleCap == 10000

BicVals == {1, 2}   \* values gmm.bic may return (finite)

(* Bounds of the direct calls *)

MaxN == 5           \* points of a coordinate set
MaxMinNc == 3       \* min_nc
MaxMaxNc == 5       \* max_nc
MaxRows == 3        \* rows of a score table
MaxIds == 2         \* trajectory ids of a score table

-----------------------------------------------------------------------------
(* Values *)

Min(a, b) == IF a <= b THEN a ELSE b
Range(s) == {s[j] : j \in DOMAIN s}

NaN == [nan |-> TRUE]
Cell(v) == [v |-> v]
IsNaN(c) == "nan" \in DOMAIN c

\* np.inf and finite floats, as used for the BIC
Inf == [fin |-> FALSE, val |-> 0]
Fin(v) == [fin |-> TRUE, val |-> v]
FloatLt(a, b) == a.fin /\ (~b.fin \/ a.val < b.val)

\* the empty list [] that nb_clust_with_bic_ starts from
EmptyList == [type |-> "list", n_components |-> 0, fit_on |-> <<>>]

\* GaussianMixture(n_components=nc, covariance_type="full").fit(coord_tc)
GaussianMixture_fit(nc, coord_tc) ==
    [type |-> "GaussianMixture", n_components |-> nc, fit_on |-> coord_tc]

\* GaussianMixture.score(X): the mean over the rows of X of the per-sample
\* log-likelihood, one float
gmm_score(gmm, X) == [model |-> gmm, mean_over |-> X]

\* the per-sample value GaussianMixture.score_samples(X)[j] would be
loglik(gmm, x) == [model |-> gmm, mean_over |-> <<x>>]

\* two log-likelihood terms that are equal whatever the fitted density is
SameLogLik(a, b) ==
    /\ a.model = b.model
    /\ \/ a.mean_over = b.mean_over
       \/ /\ Len(a.mean_over) > 0 /\ Len(b.mean_over) > 0
          /\ \A j \in DOMAIN a.mean_over, k \in DOMAIN b.mean_over :
                a.mean_over[j] = b.mean_over[k]

-----------------------------------------------------------------------------
(* nb_clust_with_bic_ *)

py_min_key_last(nc_bic, cand) ==
    IF FloatLt(nc_bic.bic, cand.bic) THEN nc_bic ELSE cand

\* min([nc_bic, cand], key=lambda x: x[1]): the first of the two unless the
\* second has a strictly lower key
py_min_key(nc_bic, cand) ==
    IF FloatLt(cand.bic, nc_bic.bic) THEN cand ELSE nc_bic

\* the loop over range(min_nc, max_ncf); bic_of[nc] is what gmm.bic returns
RECURSIVE bic_loop(_, _, _, _, _)
bic_loop(coord_tc, nc, max_ncf, bic_of, nc_bic) ==
    IF nc >= max_ncf THEN nc_bic
    ELSE LET gmm == GaussianMixture_fit(nc, coord_tc)
             bic == Fin(bic_of[nc])
         IN  bic_loop(coord_tc, nc + 1, max_ncf, bic_of,
                      py_min_key(nc_bic, [nc |-> nc, bic |-> bic, gmm |-> gmm]))

max_ncf_(coord_tc, max_nc) == Min(max_nc, Len(coord_tc))

nc_bic_default_model ==
    [nc |-> DefaultMinNc, bic |-> Inf, gmm |-> GaussianMixture_fit(DefaultMinNc, <<>>)]
\* nc_bic = [-1, np.inf, []]
nc_bic_initial == [nc |-> -1, bic |-> Inf, gmm |-> EmptyList]

nb_clust_with_bic_(coord_tc, min_nc, max_nc, bic_of) ==
    bic_loop(coord_tc, min_nc, max_ncf_(coord_tc, max_nc), bic_of, nc_bic_initial)

\* the library's possible answers for the candidates of one call
BicOutcomes(coord_tc, min_nc, max_nc) ==
    [min_nc .. (max_ncf_(coord_tc, max_nc) - 1) -> BicVals]

SelectBics == UNION {[lo .. hi -> BicVals] : lo \in 1 .. MaxMinNc, hi \in 0 .. MaxN}

-----------------------------------------------------------------------------
(* train_test_split *)

Pos(index, r) == CHOOSE j \in DOMAIN index : index[j] = r

isin(id, cv_index_i) == id \in cv_index_i

logical_not_dropped(b) == b
\* np.logical_not
logical_not(b) == ~b

train_test_split(data_orig, cv_index_i, fold) ==
    LET rows == DOMAIN data_orig.index
        data_test_bool == [j \in rows |-> isin(data_orig.id_traj[j], cv_index_i)]
        pos_train == SelectSeq([j \in rows |-> j], LAMBDA j : logical_not(data_test_bool[j]))
        pos_test == SelectSeq([j \in rows |-> j], LAMBDA j : data_test_bool[j])
        index_test == [j \in DOMAIN pos_test |-> data_orig.index[pos_test[j]]]
    IN  [data_train_index |-> [j \in DOMAIN pos_train |-> data_orig.index[pos_train[j]]],
         traj_coord_train |->
             [j \in DOMAIN pos_train |->
                 [xy |-> data_orig.xy[pos_train[j]],
                  id_traj |-> data_orig.id_traj[pos_train[j]]]],
         traj_coord_test |-> [j \in DOMAIN pos_test |-> data_orig.xy[pos_test[j]]],
         data_ |-> [index |-> index_test,
                    cv |-> [j \in DOMAIN index_test |-> Cell(fold)],
                    score |-> <<>>]]

NoSplit == [data_train_index |-> <<>>, traj_coord_train |-> <<>>,
            traj_coord_test |-> <<>>,
            data_ |-> [index |-> <<>>, cv |-> <<>>, score |-> <<>>]]

-----------------------------------------------------------------------------
(* frame operations used by build_cross_clust_mixt_cv *)

RECURSIVE Concat(_)
Concat(seqs) == IF seqs = <<>> THEN <<>> ELSE Head(seqs) \o Concat(Tail(seqs))

\* frame[col] = scalar: the scalar in every row
SetScoreColumn(frame, c, scalar) ==
    [frame EXCEPT !.score =
        [k \in DOMAIN frame.score \cup {c} |->
            IF k = c THEN [j \in DOMAIN frame.index |-> Cell(scalar)]
            ELSE frame.score[k]]]

\* pd.concat(frames): rows one after the other, the union of the columns
pd_concat(frames) ==
    LET cols == UNION {DOMAIN frames[f].score : f \in DOMAIN frames}
        column(f, c) == IF c \in DOMAIN frames[f].score THEN frames[f].score[c]
                        ELSE [j \in DOMAIN frames[f].index |-> NaN]
    IN  [index |-> Concat([f \in DOMAIN frames |-> frames[f].index]),
         cv |-> Concat([f \in DOMAIN frames |-> frames[f].cv]),
         score |-> [c \in cols |-> Concat([f \in DOMAIN frames |-> column(f, c)])]]

HasDuplicates(index) ==
    \E j, k \in DOMAIN index : j # k /\ index[j] = index[k]

reindex_by_position(frame, new_index) ==
    LET at(col, j) == IF j \in DOMAIN col THEN col[j] ELSE NaN
    IN  [index |-> new_index,
         cv |-> [j \in DOMAIN new_index |-> at(frame.cv, j)],
         score |-> [c \in DOMAIN frame.score |->
                       [j \in DOMAIN new_index |-> at(frame.score[c], j)]]]

\* frame.reindex(new_index), for a frame whose index has no duplicates
reindex(frame, new_index) ==
    LET at(col, r) == IF r \in Range(frame.index) THEN col[Pos(frame.index, r)]
                      ELSE NaN
    IN  [index |-> new_index,
         cv |-> [j \in DOMAIN new_index |-> at(frame.cv, new_index[j])],
         score |-> [c \in DOMAIN frame.score |->
                       [j \in DOMAIN new_index |-> at(frame.score[c], new_index[j])]]]

\* left.join(right), right indexed like left
join(left, right) ==
    [index |-> left.index, id_traj |-> left.id_traj, xy |-> left.xy,
     cv |-> right.cv, score |-> right.score]

NoData == [index |-> <<>>, id_traj |-> <<>>, xy |-> <<>>, cv |-> <<>>, score |-> <<>>]

-----------------------------------------------------------------------------
(* build_cross_clust_mixt_cv *)

\* np.where(labels == n_class)[0]
id_traj_class(n) == {t \in DOMAIN labels : labels[t] = n}

class_coords_unfiltered(traj_coord_train, id_traj_class_n) ==
    [j \in DOMAIN traj_coord_train |-> traj_coord_train[j].xy]

\* traj_coord_train[np.isin(traj_coord_train[:, -1], id_traj_class_n)][:, :-1]
class_coords(traj_coord_train, id_traj_class_n) ==
    LET kept == SelectSeq(traj_coord_train, LAMBDA p : p.id_traj \in id_traj_class_n)
    IN  [j \in DOMAIN kept |-> kept[j].xy]

\* coord_tc[np.random.choice(n, size=10000, replace=False), :] when n > 10000
Subsample(coord_tc) ==
    IF Len(coord_tc) > SubsampleCap
    THEN {[j \in 1 .. SubsampleCap |-> coord_tc[p[j]]] :
             p \in {q \in [1 .. SubsampleCap -> DOMAIN coord_tc] :
                       \A a, b \in 1 .. SubsampleCap : a # b => q[a] # q[b]}}
    ELSE {coord_tc}

\* lines 105-112: next fold, split, fresh dictionary
BeginFold ==
    /\ pc = "fold"
    /\ i < Len(cv_list)
    /\ split' = train_test_split(data_original, cv_list[i + 1], i)
    /\ gmm_per_traj_clust' = <<>>
    /\ n_class' = 0
    /\ pc' = "class"
    /\ UNCHANGED <<data_original, cv_list, nb_traj_class, labels, exc, i,
                   gmm_cv, data_list, data, calls, args, ret>>

\* lines 114-129: one label of the fold
FitClass ==
    /\ pc = "class"
    /\ n_class < nb_traj_class
    /\ LET all_tc == class_coords(split.traj_coord_train, id_traj_class(n_class))
       IN  \E coord_tc \in Subsample(all_tc) :
           \E res \in {nb_clust_with_bic_(coord_tc, DefaultMinNc, DefaultMaxNc, bic_of) :
                          bic_of \in BicOutcomes(coord_tc, DefaultMinNc, DefaultMaxNc)} :
              LET gmm == res.gmm
              IN  /\ calls' = Append(calls, [i |-> i, n_class |-> n_class,
                                             coord_tc |-> coord_tc, nc |-> res.nc])
                  /\ gmm_per_traj_clust' =
                        [k \in DOMAIN gmm_per_traj_clust \cup {n_class} |->
                            IF k = n_class THEN gmm ELSE gmm_per_traj_clust[k]]
                  /\ IF gmm.type # "GaussianMixture"
                     THEN \* [].score: 'list' object has no attribute 'score'
                          /\ pc' = "raised" /\ exc' = "AttributeError"
                          /\ UNCHANGED <<split, n_class>>
                     ELSE IF Len(split.traj_coord_test) = 0
                     THEN \* the library refuses an array with 0 samples
                          /\ pc' = "raised" /\ exc' = "ValueError"
                          /\ UNCHANGED <<split, n_class>>
                     ELSE /\ split' = [split EXCEPT !.data_ =
                                 SetScoreColumn(split.data_, n_class,
                                                gmm_score(gmm, split.traj_coord_test))]
                          /\ n_class' = n_class + 1
                          /\ UNCHANGED <<pc, exc>>
    /\ UNCHANGED <<data_original, cv_list, nb_traj_class, labels, i,
                   gmm_cv, data_list, data, args, ret>>

EndFold_list_reset ==
    /\ pc = "class"
    /\ n_class >= nb_traj_class
    /\ data_list' = <<split.data_>>
    /\ gmm_cv' = Append(gmm_cv, gmm_per_traj_clust)
    /\ i' = i + 1
    /\ pc' = "fold"
    /\ UNCHANGED <<data_original, cv_list, nb_traj_class, labels, exc, n_class,
                   split, gmm_per_traj_clust, data, calls, args, ret>>

\* lines 130-131: the fold's frame and dictionary join the accumulators
EndFold ==
    /\ pc = "class"
    /\ n_class >= nb_traj_class
    /\ data_list' = Append(data_list, split.data_)
    /\ gmm_cv' = Append(gmm_cv, gmm_per_traj_clust)
    /\ i' = i + 1
    /\ pc' = "fold"
    /\ UNCHANGED <<data_original, cv_list, nb_traj_class, labels, exc, n_class,
                   split, gmm_per_traj_clust, data, calls, args, ret>>

\* lines 133-135: concat, reindex, join, return
JoinReturn ==
    /\ pc = "fold"
    /\ i >= Len(cv_list)
    /\ IF data_list = <<>>
       THEN \* pd.concat([]): No objects to concatenate
            /\ pc' = "raised" /\ exc' = "ValueError" /\ UNCHANGED data
       ELSE LET cat == pd_concat(data_list)
            IN  IF HasDuplicates(cat.index)
                THEN \* cannot reindex on an axis with duplicate labels
                     /\ pc' = "raised" /\ exc' = "ValueError" /\ UNCHANGED data
                ELSE /\ data' = join(data_original, reindex(cat, data_original.index))
                     /\ pc' = "done" /\ UNCHANGED exc
    /\ UNCHANGED <<data_original, cv_list, nb_traj_class, labels, i, n_class,
                   split, gmm_per_traj_clust, gmm_cv, data_list, calls, args, ret>>

-----------------------------------------------------------------------------
(* Inputs of a run *)

TrajIds == 0 .. (NTraj - 1)

\* ppt points per trajectory, rows grouped by trajectory or interleaved,
\* the coordinates cycling through MaxCoord values
Frame(ppt, interleaved) ==
    LET N == NTraj * ppt
    IN  [index |-> [r \in 1 .. N |-> r],
         id_traj |-> [r \in 1 .. N |->
                        IF interleaved THEN (r - 1) % NTraj ELSE (r - 1) \div ppt],
         xy |-> [r \in 1 .. N |-> ((r - 1) % MaxCoord) + 1]]

\* label arrays, up to renaming of the trajectory ids
LabelArrays ==
    {l \in [TrajIds -> 0 .. (MaxClass - 1)] :
        \A t \in TrajIds : t + 1 \in TrajIds => l[t] <= l[t + 1]}

FoldLists == UNION {[1 .. n -> SUBSET TrajIds] : n \in 0 .. MaxFolds}

NoArgs == [op |-> "none"]
NoRet == [op |-> "none"]

Init ==
    /\ \E ppt \in 1 .. MaxPts, il \in BOOLEAN :
          data_original = Frame(ppt, il)
    /\ cv_list \in FoldLists
    /\ nb_traj_class \in 0 .. MaxClass
    /\ labels \in LabelArrays
    /\ pc = "fold"
    /\ exc = "none"
    /\ i = 0
    /\ n_class = 0
    /\ split = NoSplit
    /\ gmm_per_traj_clust = <<>>
    /\ gmm_cv = <<>>
    /\ data_list = <<>>
    /\ data = NoData
    /\ calls = <<>>
    /\ args = NoArgs
    /\ ret = NoRet

Next == BeginFold \/ FitClass \/ EndFold \/ JoinReturn

Spec == Init /\ [][Next]_vars

-----------------------------------------------------------------------------
(* A direct call of nb_clust_with_bic_ *)

Idle ==
    /\ exc = "none" /\ i = 0 /\ n_class = 0 /\ split = NoSplit
    /\ gmm_per_traj_clust = <<>> /\ gmm_cv = <<>> /\ data_list = <<>>
    /\ calls = <<>> /\ ret = NoRet

Coords(n) == [j \in 1 .. n |-> ((j - 1) % MaxCoord) + 1]

SelectArgs ==
    {[op |-> "nb_clust_with_bic_", coord_tc |-> Coords(n),
      min_nc |-> lo, max_nc |-> hi, bic_of |-> b] :
        <<n, lo, hi, b>> \in
            {t \in (0 .. MaxN) \X (1 .. MaxMinNc)
                    \X ((0 .. MaxMaxNc) \cup {DefaultMaxNc}) \X SelectBics :
                DOMAIN t[4] = t[2] .. (Min(t[3], t[1]) - 1)}}

InitSelect ==
    /\ Idle
    /\ data_original = NoData /\ data = NoData
    /\ cv_list = <<>> /\ nb_traj_class = 0 /\ labels = <<>>
    /\ args \in SelectArgs
    /\ pc = "call"

\* lines 29-37: the function never raises by itself
CallSelect ==
    /\ pc = "call"
    /\ args.op = "nb_clust_with_bic_"
    /\ ret' = [op |-> "returned",
               value |-> nb_clust_with_bic_(args.coord_tc, args.min_nc,
                                            args.max_nc, args.bic_of)]
    /\ pc' = "returned"
    /\ UNCHANGED <<data_original, cv_list, nb_traj_class, labels, exc, i, n_class,
                   split, gmm_per_traj_clust, gmm_cv, data_list, data, calls, args>>

NextSelect == CallSelect

SpecSelect == InitSelect /\ [][NextSelect]_vars

\* the candidate counts of the call in args
Candidates == args.min_nc .. (Min(args.max_nc, Len(args.coord_tc)) - 1)

\* C2: the returned component count lies in [min_nc, min(max_nc, n)).
CountInRange ==
    pc = "returned" => ret.value.nc \in Candidates

\* C3: with fewer points than min_nc, or an empty candidate range, the call
\* fails and returns nothing.
EmptyRangeFails ==
    (pc # "call" /\ (Len(args.coord_tc) < args.min_nc \/ Candidates = {})) =>
        pc = "raised" /\ ret.op # "returned"

\* C5: with a non-empty candidate range the call returns the candidate of
\* minimum BIC, with that candidate's BIC and model, and among the candidates
\* of minimum BIC the lowest count.
BicArgmin ==
    (pc = "returned" /\ Candidates # {}) =>
        LET v == ret.value
        IN  /\ v.nc \in Candidates
            /\ v.bic = Fin(args.bic_of[v.nc])
            /\ v.gmm = GaussianMixture_fit(v.nc, args.coord_tc)
            /\ \A k \in Candidates :
                  /\ args.bic_of[v.nc] <= args.bic_of[k]
                  /\ args.bic_of[k] = args.bic_of[v.nc] => v.nc <= k

BicArgminWitness ==
    /\ pc = "returned"
    /\ \E k1, k2, k3 \in Candidates :
          /\ k1 < k2 /\ k2 < k3
          /\ args.bic_of[k1] > args.bic_of[k2]
          /\ args.bic_of[k2] = args.bic_of[k3]
          /\ ret.value.nc = k2

-----------------------------------------------------------------------------
(* create_cumsum_data and the head of create_roc_dict *)

\* Series.cumsum() with skipna: a missing cell stays missing and adds nothing
RECURSIVE cumsum(_, _)
cumsum(col, acc) ==
    IF col = <<>> THEN <<>>
    ELSE IF IsNaN(Head(col)) THEN <<NaN>> \o cumsum(Tail(col), acc)
    ELSE <<Cell(acc + Head(col).v)>> \o cumsum(Tail(col), acc + Head(col).v)

group_rows_ungrouped(frame, g) == [j \in DOMAIN frame.index |-> j]

\* groupby("id_traj"): the positions of the rows of group g, in row order
group_rows(frame, g) ==
    SelectSeq([j \in DOMAIN frame.index |-> j], LAMBDA j : frame.id_traj[j] = g)

\* data.groupby("id_traj")[scores_columns].apply(lambda t: t.cumsum()):
\* only the score columns, indexed like data
create_cumsum_data(frame) ==
    LET rows_of(j) == group_rows(frame, frame.id_traj[j])
        sub(c, j) == [k \in DOMAIN rows_of(j) |-> frame.score[c][rows_of(j)[k]]]
    IN  [index |-> frame.index,
         score |-> [c \in DOMAIN frame.score |->
                      [j \in DOMAIN frame.index |->
                          cumsum(sub(c, j), 0)[Pos(rows_of(j), j)]]]]

\* GroupBy.last(): per column the last non-missing cell of the group
RECURSIVE last(_)
last(col) ==
    IF col = <<>> THEN NaN
    ELSE IF IsNaN(col[Len(col)]) THEN last(SubSeq(col, 1, Len(col) - 1))
    ELSE col[Len(col)]

\* lines 143-146: id_traj put back, last row per trajectory, its label
terminal_scores(data_cumsum, id_traj, labs) ==
    LET frame == [index |-> data_cumsum.index, id_traj |-> id_traj,
                  score |-> data_cumsum.score]
    IN  [g \in Range(id_traj) |->
            [score |-> [c \in DOMAIN frame.score |->
                          last([k \in DOMAIN group_rows(frame, g) |->
                                   frame.score[c][group_rows(frame, g)[k]]])],
             traj_clust |-> labs[g]]]

ScoreCells(c) == IF c = 0 THEN {NaN, Cell(-1), Cell(-3)} ELSE {NaN, Cell(-2)}

ScoreTable(n, ids, s0, s1) ==
    [index |-> [r \in 1 .. n |-> r], id_traj |-> ids,
     xy |-> Coords(n), cv |-> [r \in 1 .. n |-> Cell(0)],
     score |-> [c \in {0, 1} |-> IF c = 0 THEN s0 ELSE s1]]

InitCumsum ==
    /\ Idle
    /\ \E n \in 0 .. MaxRows :
          \E ids \in [1 .. n -> 0 .. (MaxIds - 1)],
             s0 \in [1 .. n -> ScoreCells(0)], s1 \in [1 .. n -> ScoreCells(1)] :
             data = ScoreTable(n, ids, s0, s1)
    /\ data_original = [index |-> data.index, id_traj |-> data.id_traj, xy |-> data.xy]
    /\ cv_list = <<>>
    /\ nb_traj_class = 2
    /\ labels = [t \in 0 .. (MaxIds - 1) |-> t % 2]
    /\ args = [op |-> "create_roc_dict"]
    /\ pc = "call"

\* line 142
CallCumsum ==
    /\ pc = "call"
    /\ args.op = "create_roc_dict"
    /\ ret' = [op |-> "running", data_cumsum |-> create_cumsum_data(data)]
    /\ pc' = "cumsum"
    /\ UNCHANGED <<data_original, cv_list, nb_traj_class, labels, exc, i, n_class,
                   split, gmm_per_traj_clust, gmm_cv, data_list, data, calls, args>>

\* lines 143-146
TakeLast ==
    /\ pc = "cumsum"
    /\ ret' = [op |-> "running", data_cumsum |-> ret.data_cumsum,
               data_gbit |-> terminal_scores(ret.data_cumsum,
                                             data_original.id_traj, labels)]
    /\ pc' = "gbit"
    /\ UNCHANGED <<data_original, cv_list, nb_traj_class, labels, exc, i, n_class,
                   split, gmm_per_traj_clust, gmm_cv, data_list, data, calls, args>>

NextCumsum == CallCumsum \/ TakeLast

SpecCumsum == InitCumsum /\ [][NextCumsum]_vars

\* sum of the non-missing scores of column c over the row positions in S
RECURSIVE ScoreSum(_, _)
ScoreSum(c, S) ==
    IF S = {} THEN 0
    ELSE LET j == CHOOSE k \in S : TRUE
         IN  (IF IsNaN(data.score[c][j]) THEN 0 ELSE data.score[c][j].v)
                 + ScoreSum(c, S \ {j})

SameTraj(j) == {k \in DOMAIN data.index : data.id_traj[k] = data.id_traj[j]}

\* C8: every score is replaced by the sum of the scores of its column over the
\* rows of its trajectory up to and including its own row, in row order (a
\* missing score stays missing and counts for nothing); the value taken last
\* per trajectory is the sum of all the trajectory's scores of that column.
CumulativeSums ==
    /\ pc \in {"cumsum", "gbit"} =>
          /\ ret.data_cumsum.index = data.index
          /\ DOMAIN ret.data_cumsum.score = DOMAIN data.score
          /\ \A c \in DOMAIN data.score, j \in DOMAIN data.index :
                ret.data_cumsum.score[c][j] =
                    IF IsNaN(data.score[c][j]) THEN NaN
                    ELSE Cell(ScoreSum(c, {k \in SameTraj(j) : k <= j}))
    /\ pc = "gbit" =>
          /\ DOMAIN ret.data_gbit = Range(data.id_traj)
          /\ \A c \in DOMAIN data.score, j \in DOMAIN data.index :
                ret.data_gbit[data.id_traj[j]].score[c] =
                    IF \A k \in SameTraj(j) : IsNaN(data.score[c][k]) THEN NaN
                    ELSE Cell(ScoreSum(c, SameTraj(j)))

CumulativeSumsWitness ==
    /\ pc = "gbit"
    /\ Len(data.index) = 3
    /\ data.id_traj = <<1, 1, 1>>
    /\ data.score[0] = <<Cell(-1), Cell(-3), Cell(-1)>>
    /\ ret.data_cumsum.score[0] = <<Cell(-1), Cell(-4), Cell(-5)>>
    /\ ret.data_gbit[1].score[0] = Cell(-5)

-----------------------------------------------------------------------------
(* What the claims speak of *)

Rows == DOMAIN data_original.index
Labels == 0 .. (nb_traj_class - 1)
Folds == DOMAIN cv_list
TrajOf(r) == data_original.id_traj[r]

\* the folds' held-out sets are pairwise disjoint and cover the trajectory ids
FoldsPartition ==
    /\ \A f, g \in Folds : f # g => cv_list[f] \cap cv_list[g] = {}
    /\ UNION {cv_list[f] : f \in Folds} = Range(data_original.id_traj)

\* coordinates, in row order, of the rows outside fold f whose trajectory has label c
TrainCoordsOf(f, c) ==
    LET pos == SelectSeq([r \in Rows |-> r],
                         LAMBDA r : TrajOf(r) \notin cv_list[f] /\ labels[TrajOf(r)] = c)
    IN  [j \in DOMAIN pos |-> data_original.xy[pos[j]]]

\* row labels, in row order, of the rows held out by fold f
TestRowsOf(f) ==
    SelectSeq(data_original.index, LAMBDA r : TrajOf(r) \in cv_list[f])

\* the (fold frame, position) pairs that hold a value of column c for row label r
Writes(r, c) ==
    {w \in {<<f, j>> : f \in DOMAIN data_list, j \in Rows} :
        /\ w[2] \in DOMAIN data_list[w[1]].index
        /\ data_list[w[1]].index[w[2]] = r
        /\ c \in DOMAIN data_list[w[1]].score}

\* C1: after a run over folds that partition the trajectory ids, every row has
\* a non-missing value in every score column, the row is held out by exactly
\* one fold, that fold is the one recorded for it, and each column was written
\* for it exactly once.
ScoreTableCoverage ==
    (pc = "done" /\ FoldsPartition) =>
        \A r \in Rows :
            /\ Cardinality({f \in Folds : TrajOf(r) \in cv_list[f]}) = 1
            /\ \A f \in Folds : TrajOf(r) \in cv_list[f] => data.cv[r] = Cell(f - 1)
            /\ \A c \in Labels :
                  /\ c \in DOMAIN data.score
                  /\ ~IsNaN(data.score[c][r])
                  /\ Cardinality(Writes(data.index[r], c)) = 1

ScoreTableCoverageWitness ==
    /\ pc = "done" /\ FoldsPartition
    /\ Len(cv_list) = 2 /\ nb_traj_class = 2
    /\ cv_list[1] = {1, 3}
    /\ data_original.id_traj[2] = 1

\* C4: a call of the model selection with fewer than min_components points is
\* the last thing the run does and the run ends raised; a run that returns had
\* no such (fold, label) cell; no fitted model has fewer than min_components
\* components or was fitted on fewer than min_components points.
StarvedClusterFails ==
    /\ \A k \in DOMAIN calls :
          Len(calls[k].coord_tc) < DefaultMinNc =>
              k = Len(calls) /\ pc = "raised" /\ data = NoData
    /\ pc = "done" =>
          \A f \in Folds, c \in Labels : Len(TrainCoordsOf(f, c)) >= DefaultMinNc
    /\ \A d \in Range(gmm_cv) \cup {gmm_per_traj_clust} : \A c \in DOMAIN d :
          d[c].type = "GaussianMixture" =>
              d[c].n_components >= DefaultMinNc /\ Len(d[c].fit_on) >= DefaultMinNc

StarvedClusterFailsWitness ==
    /\ Len(calls) >= 2
    /\ Len(calls[Len(calls)].coord_tc) = 1
    /\ pc = "raised" /\ exc = "AttributeError"

\* C6: a fold's split sends a row to the test partition exactly when its
\* trajectory id is held out and to the train partition otherwise; the two are
\* disjoint by row label and their sizes sum to the number of rows.
PartitionTotality ==
    pc = "class" =>
        LET held == cv_list[i + 1]
            test == split.data_.index
            train == split.data_train_index
        IN  /\ \A r \in Rows :
                  /\ data_original.index[r] \in Range(test) <=> TrajOf(r) \in held
                  /\ data_original.index[r] \in Range(train) <=> TrajOf(r) \notin held
            /\ Range(test) \cap Range(train) = {}
            /\ Len(split.traj_coord_train) = Len(train)
            /\ Len(split.traj_coord_test) = Len(test)
            /\ Len(split.traj_coord_train) + Len(split.traj_coord_test)
                  = Len(data_original.index)

PartitionTotalityWitness ==
    /\ pc = "class" /\ i = 1
    /\ Len(split.data_train_index) > 2 /\ Len(split.data_.index) > 2
    /\ split.data_.index[2] # split.data_.index[1] + 1

\* C7: in the returned table the value of score_c of a row is the per-point
\* log-likelihood of the row's own coordinates under the model fitted for
\* label c in the fold that holds the row's trajectory out.
PerPointScores ==
    pc = "done" =>
        \A r \in Rows, c \in Labels, f \in Folds :
            TrajOf(r) \in cv_list[f] =>
                /\ ~IsNaN(data.score[c][r])
                /\ SameLogLik(data.score[c][r].v, loglik(gmm_cv[f][c], data.xy[r]))

\* C9: every coordinate set passed to the model selection for (fold, label)
\* holds only coordinates of rows outside the fold's held-out set whose
\* trajectory has that label, and is exactly that set when not subsampled.
TrainingSetFiltered ==
    \A k \in DOMAIN calls :
        LET e == calls[k]
            want == TrainCoordsOf(e.i + 1, e.n_class)
        IN  /\ Range(e.coord_tc) \subseteq Range(want)
            /\ Len(e.coord_tc) <= Len(want)
            /\ Len(want) <= SubsampleCap => e.coord_tc = want

TrainingSetFilteredWitness ==
    \E k \in DOMAIN calls :
        /\ calls[k].n_class = 1
        /\ Len(calls[k].coord_tc) > 0
        /\ Len(calls[k].coord_tc) < Len(split.traj_coord_train)
        /\ Len(split.traj_coord_test) > 0

\* C10: both accumulators hold one entry per completed fold, in fold order;
\* a fold iteration ends by growing each by exactly one entry; entries already
\* there are never changed; on return there is one dictionary per fold, each
\* with a fitted model for exactly the labels 0..nb_traj_class-1.
AccumulatorsState ==
    /\ Len(gmm_cv) = Len(data_list)
    /\ pc \in {"fold", "class", "done"} => Len(gmm_cv) = i
    /\ pc = "done" => Len(gmm_cv) = Len(cv_list)
    /\ \A f \in DOMAIN gmm_cv :
          /\ DOMAIN gmm_cv[f] = Labels
          /\ \A c \in Labels :
                /\ gmm_cv[f][c].type = "GaussianMixture"
                /\ gmm_cv[f][c].fit_on = TrainCoordsOf(f, c)
    /\ \A f \in DOMAIN data_list : data_list[f].index = TestRowsOf(f)

AccumulatorsStep ==
    /\ i' # i => /\ i' = i + 1
                 /\ Len(gmm_cv') = Len(gmm_cv) + 1
                 /\ Len(data_list') = Len(data_list) + 1
    /\ i' = i => Len(gmm_cv') = Len(gmm_cv) /\ Len(data_list') = Len(data_list)
    /\ \A f \in DOMAIN gmm_cv : f \in DOMAIN gmm_cv' /\ gmm_cv'[f] = gmm_cv[f]
    /\ \A f \in DOMAIN data_list : f \in DOMAIN data_list' /\ data_list'[f] = data_list[f]

\* C10: the accumulators' state holds always and every step keeps to their growth rule.
AccumulatorsGrow == []AccumulatorsState /\ [][AccumulatorsStep]_vars

AccumulatorsGrowWitness ==
    /\ pc = "done" /\ Len(gmm_cv) = 2 /\ nb_traj_class = 2
    /\ gmm_cv[1] # gmm_cv[2]

====
